---- MODULE Spec2Model ----
(***************************************************************************)
(* Model of server/index.js of buddy-app: the derangement generator, the   *)
(* token registry, the assignment store (Supabase table or local JSON      *)
(* file) and the request handlers that reveal and reset assignments.       *)
(*                                                                         *)
(* Specifications:                                                         *)
(*   SpecDer      runs derangement(n) one loop iteration at a time;        *)
(*   SpecDerFair  is SpecDer with the loop never stopping half-way;        *)
(*   Spec         runs the HTTP handlers, one step per synchronous         *)
(*                segment between two awaits;                              *)
(*   SpecHist     is Spec with a history of saves and reveals;             *)
(*   SpecCycle    is Spec with a record of the resets that took effect.    *)
(* Arrays are functions over 0..len-1, as in the source.                   *)
(***************************************************************************)
EXTENDS Integers, FiniteSets, Sequences, TLC

\* ---------------------------------------------------------------- bounds
MaxN == 3          \* largest n given to derangement in SpecDer
MaxPeople == 3     \* largest colleagues.json list in Spec
MaxReq == 2        \* request handlers that can be in flight together
MaxGenerated == 2  \* no new reveal request starts once this many sets were saved in a cycle

\* ------------------------------------------------------ program constants
MaxTries == 2000   \* index.js:63  tries < 2000

VARIABLES
  \* derangement(n), index.js:61-71
  n,            \* the argument
  arr,          \* the working array
  tries,        \* outer loop counter
  i,            \* inner loop counter
  pcD,          \* "off" | "shuffle" | "returned" | "thrown"
  \* the server
  hasSupabase,  \* index.js:19
  colleagues,   \* data/colleagues.json: the names, in order
  tokens,       \* data/state.json: name -> token, NoToken when absent
  localFile,    \* data/assignments.json: Absent or the array of rows
  db,           \* the Supabase table 'assignments': a set of rows
  req,          \* the handlers in flight, one record per slot
  res,          \* the response sent by the step just taken, or NoResponse
  called,       \* the arguments derangement was called with in the step just taken
  failed,       \* the store operation the backend reported an error on in that step, or "none"
  generated,    \* assignment sets saved since the last reset took effect
  revealed,     \* token -> receiver first revealed since the last reset, or Null
  wasReset      \* a reset has taken effect while no reveal request was in flight

derVars == <<n, arr, tries, i, pcD>>
histVars == <<generated, revealed, wasReset>>
srvVars == <<hasSupabase, colleagues, tokens, localFile, db, req, res, called, failed,
            generated, revealed, wasReset>>
vars == <<n, arr, tries, i, pcD, hasSupabase, colleagues, tokens, localFile, db, req, res,
          called, failed, generated, revealed, wasReset>>

Range(f) == {f[k] : k \in DOMAIN f}

(***************************************************************************)
(* derangement(n), index.js:61-71                                          *)
(***************************************************************************)

\* Array.from({ length: n }, (_, i) => i)
Identity(len) == [k \in 0 .. len - 1 |-> k]

\* [arr[i], arr[j]] = [arr[j], arr[i]]
Swap(a, p, q) == [a EXCEPT ![p] = a[q], ![q] = a[p]]

\* (variant: the draw starts at 1)
RandomIndexFromOne(p) == 1 .. p

\* Math.floor(Math.random() * (i + 1)): any integer of 0..i
RandomIndex(p) == 0 .. p

\* (variants of the check: some instead of every; index 0 left out)
SomeMoved(a) == \E k \in DOMAIN a : a[k] # k
EveryMovedFromOne(a) == \A k \in DOMAIN a \ {0} : a[k] # k

\* arr.every((v, i) => v !== i)
EveryMoved(a) == \A k \in DOMAIN a : a[k] # k

\* (variant of the loop condition: tries <= 2000)
TriesLeftInclusive(t) == t <= MaxTries

\* the outer loop's condition, tries < 2000
TriesLeft(t) == t < MaxTries

\* the inner loop's condition, i > 0
InnerLoop(p) == p > 0

DerInit ==
  /\ arr = Identity(n)
  /\ tries = 0
  /\ i = n - 1
  /\ pcD = IF TriesLeft(0) THEN "shuffle" ELSE "thrown"

\* one iteration of the inner loop (index.js:64-67)
DerSwap ==
  /\ pcD = "shuffle"
  /\ InnerLoop(i)
  /\ \E j \in RandomIndex(i) : arr' = Swap(arr, i, j)
  /\ i' = i - 1
  /\ UNCHANGED <<n, tries, pcD>>

\* the inner loop is over and the check passes: return arr.slice() (index.js:68)
DerReturn ==
  /\ pcD = "shuffle"
  /\ ~InnerLoop(i)
  /\ EveryMoved(arr)
  /\ pcD' = "returned"
  /\ UNCHANGED <<n, arr, tries, i>>

\* the check fails: tries++ and the next attempt starts (index.js:63)
DerRetry ==
  /\ pcD = "shuffle"
  /\ ~InnerLoop(i)
  /\ ~EveryMoved(arr)
  /\ TriesLeft(tries + 1)
  /\ tries' = tries + 1
  /\ i' = n - 1
  /\ UNCHANGED <<n, arr, pcD>>

\* the check fails and the budget is used up: throw (index.js:70)
DerThrow ==
  /\ pcD = "shuffle"
  /\ ~InnerLoop(i)
  /\ ~EveryMoved(arr)
  /\ ~TriesLeft(tries + 1)
  /\ tries' = tries + 1
  /\ pcD' = "thrown"
  /\ UNCHANGED <<n, arr, i>>

(***************************************************************************)
(* The outcomes of one call derangement(len), as sets: every array some    *)
(* sequence of random choices returns, and whether some sequence throws.   *)
(* The handlers call derangement synchronously, so Spec uses these.        *)
(***************************************************************************)

\* the arrays the inner loop can leave, started on a at index p
RECURSIVE Shuffled(_, _)
Shuffled(a, p) ==
  IF InnerLoop(p)
    THEN UNION {Shuffled(Swap(a, p, j), p - 1) : j \in RandomIndex(p)}
    ELSE {a}

\* one attempt of the outer loop on every array an earlier attempt can have left
Attempt(st, len) ==
  LET sh == UNION {Shuffled(a, len - 1) : a \in st.pending}
  IN [pending |-> {a \in sh : ~EveryMoved(a)},
      returns |-> UNION {st.returns, {a \in sh : EveryMoved(a)}}]

\* k attempts in a row; the result is a one-element set
RECURSIVE Attempts(_, _, _)
Attempts(st, len, k) ==
  IF k = 0 THEN {st}
  ELSE IF k = 1 THEN {Attempt(st, len)}
  ELSE UNION {Attempts(half, len, k - (k \div 2)) : half \in Attempts(st, len, k \div 2)}

\* returns: the arrays derangement(len) can return; pending # {}: it can throw
derangement ==
  [len \in 0 .. (IF MaxN > MaxPeople THEN MaxN ELSE MaxPeople) |->
     CHOOSE st \in Attempts([pending |-> {Identity(len)}, returns |-> {}], len, MaxTries) : TRUE]

(***************************************************************************)
(* Token registry, index.js:47-59                                          *)
(***************************************************************************)

NoToken == 0       \* a missing token: req.body.token / state.tokens[name] is falsy
Null == 0          \* null / undefined where a name is expected
Names == 1 .. MaxPeople
\* the values randomUUID draws from, and a string it never produces
TokenPool == 1 .. MaxPeople
Stranger == MaxPeople + 1
RequestTokens == TokenPool \cup {NoToken, Stranger}

\* randomUUID(): a token no name holds yet
randomUUID(used) == TokenPool \ used

\* (variant: the loop draws a token for every name, held or not)
RECURSIVE ensureTokensAlways(_, _)
ensureTokensAlways(tk, k) ==
  IF k \notin DOMAIN colleagues THEN {tk}
  ELSE UNION {ensureTokensAlways([tk EXCEPT ![colleagues[k]] = u], k + 1) :
                u \in randomUUID(Range(tk))}

\* the loop of index.js:52-56 from list index k on: every token map it can leave
RECURSIVE ensureTokens(_, _)
ensureTokens(tk, k) ==
  IF k \notin DOMAIN colleagues THEN {tk}
  ELSE IF tk[colleagues[k]] # NoToken THEN ensureTokens(tk, k + 1)
  ELSE UNION {ensureTokens([tk EXCEPT ![colleagues[k]] = u], k + 1) :
                u \in randomUUID(Range(tk))}

\* the state.json contents loadColleaguesWithTokens can write back
loadColleaguesWithTokens == ensureTokens(tokens, 0)

\* list.map(p => ({ ...p, token: state.tokens[p.name] }))
People(tk) == [k \in DOMAIN colleagues |-> [name |-> colleagues[k], token |-> tk[colleagues[k]]]]

Length(a) == Cardinality(DOMAIN a)

\* people.find(p => p.token === t), as a name; Null when there is none
FindName(people, t) ==
  LET hits == {k \in DOMAIN people : people[k].token = t}
  IN IF hits = {} THEN Null
     ELSE people[CHOOSE k \in hits : \A m \in hits : k <= m].name

(***************************************************************************)
(* Assignment store, index.js:74-111                                       *)
(***************************************************************************)

Absent == [exists |-> FALSE, rows |-> <<>>]
File(rows) == [exists |-> TRUE, rows |-> rows]

\* getAllAssignments() without Supabase (index.js:95-96)
LocalList == IF localFile.exists THEN localFile.rows ELSE <<>>

\* the rows of the backend in use
Stored == IF hasSupabase THEN db ELSE Range(LocalList)

\* (variant: a plain insert that keeps the rows already there)
InsertKeeping(table, pairs) == table \cup Range(pairs)

\* .upsert(pairs, { onConflict: 'token' }): one statement, all rows or none
Upsert(table, pairs) ==
  {row \in table : \A k \in DOMAIN pairs : pairs[k].token # row.token} \cup Range(pairs)

\* getByToken(token): the results it can give. data is what the function
\* returns, a set of at most one row ({} is null); error tells that the
\* backend reported an error, which the function turns into null. With
\* Supabase, more than one match is an error of maybeSingle().
getByToken(t) ==
  IF hasSupabase
    THEN LET match == {row \in db : row.token = t}
         IN IF Cardinality(match) > 1
              THEN {[error |-> TRUE, data |-> {}]}
              ELSE {[error |-> TRUE, data |-> {}], [error |-> FALSE, data |-> match]}
    ELSE LET hits == {k \in DOMAIN LocalList : LocalList[k].token = t}
         IN IF hits = {} THEN {[error |-> FALSE, data |-> {}]}
            ELSE {[error |-> FALSE,
                   data |-> {LocalList[CHOOSE k \in hits : \A m \in hits : k <= m]}]}

\* (variant: an unknown token falls back to the first participant)
tokenToIndexOrFirst(people, t) ==
  IF \E k \in DOMAIN people : people[k].token = t
    THEN {k \in DOMAIN people : people[k].token = t}
    ELSE {k \in DOMAIN people : k = 0}

\* tokenToIndex.get(token): the list indices it can give, {} for undefined
\* (index.js:127-128)
tokenToIndex(people, t) == {k \in DOMAIN people : people[k].token = t}

\* (variant: the receiver's name is read from the giver)
buildRowsGiverName(people, perm) ==
  [k \in DOMAIN people |->
     [token |-> people[k].token, giver |-> people[k].name,
      receiver_token |-> people[perm[k]].token, receiver |-> people[k].name]]

\* index.js:134-139
buildRows(people, perm) ==
  [k \in DOMAIN people |->
     [token |-> people[k].token, giver |-> people[k].name,
      receiver_token |-> people[perm[k]].token, receiver |-> people[perm[k]].name]]

(***************************************************************************)
(* Request handlers                                                        *)
(***************************************************************************)

Req == 1 .. MaxReq

IdleReq == [pc |-> "idle", token |-> NoToken, people |-> <<>>, rows |-> <<>>]
NoResponse == [op |-> "none", status |-> 0, token |-> NoToken, assignee |-> Null]
Response(op, status, t, a) == [op |-> op, status |-> status, token |-> t, assignee |-> a]

\* Without Supabase every await of a handler is on a settled promise: the
\* handler runs to its response before another request's callback starts.
CanRun(r) == hasSupabase \/ \A q \in Req \ {r} : req[q].pc = "idle"
CanStart == hasSupabase \/ \A q \in Req : req[q].pc = "idle"

\* a new request runs in the first slot that is free
FreeSlot(r) == req[r].pc = "idle" /\ \A q \in Req : q < r => req[q].pc # "idle"

\* POST /api/assign up to the first getByToken (index.js:123-131)
AssignStart(r, t) ==
  /\ FreeSlot(r)
  /\ CanStart
  /\ IF t = NoToken
       THEN /\ res' = Response("assign", 400, t, Null)
            /\ UNCHANGED <<tokens, req>>
       ELSE \E tk \in loadColleaguesWithTokens :
              /\ tokens' = tk
              /\ IF tokenToIndex(People(tk), t) = {}
                   THEN /\ res' = Response("assign", 404, t, Null)
                        /\ UNCHANGED req
                   ELSE /\ req' = [req EXCEPT ![r] = [IdleReq EXCEPT !.pc = "lookup", !.token = t,
                                                                     !.people = People(tk)]]
                        /\ res' = NoResponse
  /\ called' = {}
  /\ failed' = "none"
  /\ UNCHANGED <<hasSupabase, colleagues, localFile, db>>

\* the first getByToken answers; derangement and the rows (index.js:131-140)
AssignLookup(r) ==
  /\ req[r].pc = "lookup"
  /\ CanRun(r)
  /\ \E existing \in getByToken(req[r].token) :
       /\ failed' = IF existing.error THEN "lookup" ELSE "none"
       /\ IF existing.data = {}
            THEN /\ called' = {Length(req[r].people)}
                 /\ \/ /\ derangement[Length(req[r].people)].pending # {}
                       /\ req' = [req EXCEPT ![r] = IdleReq]
                       /\ res' = Response("assign", 500, req[r].token, Null)
                    \/ \E perm \in derangement[Length(req[r].people)].returns :
                         /\ req' = [req EXCEPT ![r].pc = "save",
                                               ![r].rows = buildRows(req[r].people, perm)]
                         /\ res' = NoResponse
            ELSE /\ called' = {}
                 /\ req' = [req EXCEPT ![r].pc = "read"]
                 /\ res' = NoResponse
  /\ UNCHANGED <<hasSupabase, colleagues, tokens, localFile, db>>

\* saveAssignments(rows) answers (index.js:74-84, 140)
AssignSave(r) ==
  /\ req[r].pc = "save"
  /\ CanRun(r)
  /\ IF hasSupabase
       THEN /\ \/ /\ req' = [req EXCEPT ![r] = IdleReq]
                  /\ res' = Response("assign", 500, req[r].token, Null)
                  /\ failed' = "save"
                  /\ UNCHANGED db
               \/ /\ db' = Upsert(db, req[r].rows)
                  /\ req' = [req EXCEPT ![r].pc = "read", ![r].rows = <<>>]
                  /\ res' = NoResponse
                  /\ failed' = "none"
            /\ UNCHANGED localFile
       ELSE /\ localFile' = File(req[r].rows)
            /\ req' = [req EXCEPT ![r].pc = "read", ![r].rows = <<>>]
            /\ res' = NoResponse
            /\ failed' = "none"
            /\ UNCHANGED db
  /\ called' = {}
  /\ UNCHANGED <<hasSupabase, colleagues, tokens>>

\* the second getByToken answers and the response goes out (index.js:143-145)
AssignRead(r) ==
  /\ req[r].pc = "read"
  /\ CanRun(r)
  /\ \E row \in getByToken(req[r].token) :
       /\ failed' = IF row.error THEN "read" ELSE "none"
       /\ res' = Response("assign", 200, req[r].token,
                          IF row.data = {} THEN Null
                          ELSE FindName(req[r].people,
                                        (CHOOSE x \in row.data : TRUE).receiver_token))
  /\ req' = [req EXCEPT ![r] = IdleReq]
  /\ called' = {}
  /\ UNCHANGED <<hasSupabase, colleagues, tokens, localFile, db>>

\* POST /admin/reset up to the Supabase delete (index.js:177-187)
ResetStart(r) ==
  /\ FreeSlot(r)
  /\ CanStart
  /\ localFile' = File(<<>>)
  /\ IF hasSupabase
       THEN /\ req' = [req EXCEPT ![r].pc = "delete"]
            /\ res' = NoResponse
       ELSE /\ res' = Response("reset", 200, NoToken, Null)
            /\ UNCHANGED req
  /\ called' = {}
  /\ failed' = "none"
  /\ UNCHANGED <<hasSupabase, colleagues, tokens, db>>

\* (variant: the response goes out but the table is left as it is)
ResetDeleteNothing(r) ==
  /\ req[r].pc = "delete"
  /\ \/ /\ res' = Response("reset", 500, NoToken, Null)
        /\ failed' = "delete"
     \/ /\ res' = Response("reset", 200, NoToken, Null)
        /\ failed' = "none"
  /\ req' = [req EXCEPT ![r] = IdleReq]
  /\ called' = {}
  /\ UNCHANGED <<hasSupabase, colleagues, tokens, localFile, db>>

\* the delete answers (index.js:184-195)
ResetDelete(r) ==
  /\ req[r].pc = "delete"
  /\ \/ /\ res' = Response("reset", 500, NoToken, Null)
        /\ failed' = "delete"
        /\ UNCHANGED db
     \/ /\ db' = {row \in db : row.token = NoToken}
        /\ res' = Response("reset", 200, NoToken, Null)
        /\ failed' = "none"
  /\ req' = [req EXCEPT ![r] = IdleReq]
  /\ called' = {}
  /\ UNCHANGED <<hasSupabase, colleagues, tokens, localFile>>

\* GET /api/whoami/:token (index.js:166-171)
Whoami(t) ==
  /\ CanStart
  /\ \E tk \in loadColleaguesWithTokens :
       /\ tokens' = tk
       /\ res' = IF FindName(People(tk), t) = Null
                   THEN Response("whoami", 404, t, Null)
                   ELSE Response("whoami", 200, t, FindName(People(tk), t))
  /\ called' = {}
  /\ failed' = "none"
  /\ UNCHANGED <<hasSupabase, colleagues, localFile, db, req>>

\* GET /admin/links.csv (index.js:153-164)
LinksCsv ==
  /\ CanStart
  /\ \E tk \in loadColleaguesWithTokens : tokens' = tk
  /\ res' = Response("links", 200, NoToken, Null)
  /\ called' = {}
  /\ failed' = "none"
  /\ UNCHANGED <<hasSupabase, colleagues, localFile, db, req>>

\* GET /admin/export.csv up to the Supabase select of getAllAssignments
\* (index.js:198-201, 86-97); the local file is read at once
ExportStart(r) ==
  /\ FreeSlot(r)
  /\ CanStart
  /\ \E tk \in loadColleaguesWithTokens :
       /\ tokens' = tk
       /\ IF hasSupabase
            THEN /\ req' = [req EXCEPT ![r] = [IdleReq EXCEPT !.pc = "export",
                                                              !.people = People(tk)]]
                 /\ res' = NoResponse
            ELSE /\ res' = Response("export", 200, NoToken, Null)
                 /\ UNCHANGED req
  /\ called' = {}
  /\ failed' = "none"
  /\ UNCHANGED <<hasSupabase, colleagues, localFile, db>>

\* the select answers: the CSV, or 500 on an error (index.js:201-219)
ExportDone(r) ==
  /\ req[r].pc = "export"
  /\ \/ /\ res' = Response("export", 500, NoToken, Null)
        /\ failed' = "export"
     \/ /\ res' = Response("export", 200, NoToken, Null)
        /\ failed' = "none"
  /\ req' = [req EXCEPT ![r] = IdleReq]
  /\ called' = {}
  /\ UNCHANGED <<hasSupabase, colleagues, tokens, localFile, db>>

\* GET /admin/health up to the Supabase head select (index.js:222-227)
HealthStart(r) ==
  /\ FreeSlot(r)
  /\ CanStart
  /\ IF hasSupabase
       THEN /\ req' = [req EXCEPT ![r].pc = "health"]
            /\ res' = NoResponse
       ELSE /\ res' = Response("health", 200, NoToken, Null)
            /\ UNCHANGED req
  /\ called' = {}
  /\ failed' = "none"
  /\ UNCHANGED <<hasSupabase, colleagues, tokens, localFile, db>>

\* (variant: the probe writes a row to find out whether the table answers)
HealthDoneProbing(r) ==
  /\ req[r].pc = "health"
  /\ \/ /\ res' = Response("health", 500, NoToken, Null)
        /\ failed' = "health"
        /\ UNCHANGED db
     \/ /\ res' = Response("health", 200, NoToken, Null)
        /\ failed' = "none"
        /\ db' = db \cup {[token |-> Stranger, giver |-> Null,
                           receiver_token |-> Stranger, receiver |-> Null]}
  /\ req' = [req EXCEPT ![r] = IdleReq]
  /\ called' = {}
  /\ UNCHANGED <<hasSupabase, colleagues, tokens, localFile>>

\* the head select answers (index.js:227-233)
HealthDone(r) ==
  /\ req[r].pc = "health"
  /\ \/ /\ res' = Response("health", 500, NoToken, Null)
        /\ failed' = "health"
     \/ /\ res' = Response("health", 200, NoToken, Null)
        /\ failed' = "none"
  /\ req' = [req EXCEPT ![r] = IdleReq]
  /\ called' = {}
  /\ UNCHANGED <<hasSupabase, colleagues, tokens, localFile, db>>

(***************************************************************************)
(* History of a run, kept beside the program's state                       *)
(***************************************************************************)

NoneRevealed == [t \in TokenPool |-> Null]

\* the step just taken saved an assignment set
Saved == \E r \in Req : req[r].pc = "save" /\ req'[r].pc = "read"

\* the step just taken emptied the store in use
ResetDone == res'.op = "reset" /\ res'.status = 200

\* the step just taken told a participant their receiver
Revealed == res'.op = "assign" /\ res'.status = 200 /\ res'.assignee # Null

Observe ==
  /\ generated' = IF ResetDone THEN 0 ELSE IF Saved THEN generated + 1 ELSE generated
  /\ revealed' = IF ResetDone THEN NoneRevealed
                 ELSE IF Revealed /\ revealed[res'.token] = Null
                   THEN [revealed EXCEPT ![res'.token] = res'.assignee]
                   ELSE revealed
  /\ wasReset' = wasReset

\* no reveal request is between its start and its response
NoRevealInFlight == \A r \in Req : req[r].pc \notin {"lookup", "save", "read"}

ObserveReset ==
  /\ wasReset' = (wasReset \/ (ResetDone /\ NoRevealInFlight'))
  /\ UNCHANGED <<generated, revealed>>

(***************************************************************************)
(* Specifications                                                          *)
(***************************************************************************)

DerOff == n = 0 /\ arr = <<>> /\ tries = 0 /\ i = 0 /\ pcD = "off"

SrvFresh ==
  /\ tokens = [name \in Names |-> NoToken]
  /\ localFile = Absent
  /\ db = {}
  /\ req = [r \in Req |-> IdleReq]
  /\ res = NoResponse
  /\ called = {}
  /\ failed = "none"
  /\ generated = 0
  /\ revealed = NoneRevealed
  /\ wasReset = FALSE

\* a fresh deployment: either backend, any seed list of up to MaxPeople names
Init ==
  /\ DerOff
  /\ hasSupabase \in BOOLEAN
  /\ colleagues \in {[k \in 0 .. len - 1 |-> k + 1] : len \in 0 .. MaxPeople}
  /\ SrvFresh

Next ==
  \/ \E r \in Req : \E t \in RequestTokens :
       AssignStart(r, t) /\ UNCHANGED <<derVars, histVars>>
  \/ \E r \in Req : AssignLookup(r) /\ UNCHANGED <<derVars, histVars>>
  \/ \E r \in Req : AssignSave(r) /\ UNCHANGED <<derVars, histVars>>
  \/ \E r \in Req : AssignRead(r) /\ UNCHANGED <<derVars, histVars>>
  \/ \E r \in Req : ResetStart(r) /\ UNCHANGED <<derVars, histVars>>
  \/ \E r \in Req : ResetDelete(r) /\ UNCHANGED <<derVars, histVars>>
  \/ \E t \in RequestTokens \ {NoToken} : Whoami(t) /\ UNCHANGED <<derVars, histVars>>
  \/ LinksCsv /\ UNCHANGED <<derVars, histVars>>
  \/ \E r \in Req : ExportStart(r) /\ UNCHANGED <<derVars, histVars>>
  \/ \E r \in Req : ExportDone(r) /\ UNCHANGED <<derVars, histVars>>
  \/ \E r \in Req : HealthStart(r) /\ UNCHANGED <<derVars, histVars>>
  \/ \E r \in Req : HealthDone(r) /\ UNCHANGED <<derVars, histVars>>

Spec == Init /\ [][Next]_vars

\* the same handlers with the history kept; no reveal request starts once
\* MaxGenerated assignment sets were saved since the last reset
NextHist ==
  \/ \E r \in Req : \E t \in RequestTokens :
       generated < MaxGenerated /\ AssignStart(r, t) /\ Observe /\ UNCHANGED derVars
  \/ \E r \in Req : AssignLookup(r) /\ Observe /\ UNCHANGED derVars
  \/ \E r \in Req : AssignSave(r) /\ Observe /\ UNCHANGED derVars
  \/ \E r \in Req : AssignRead(r) /\ Observe /\ UNCHANGED derVars
  \/ \E r \in Req : ResetStart(r) /\ Observe /\ UNCHANGED derVars
  \/ \E r \in Req : ResetDelete(r) /\ Observe /\ UNCHANGED derVars
  \/ \E t \in RequestTokens \ {NoToken} : Whoami(t) /\ Observe /\ UNCHANGED derVars
  \/ LinksCsv /\ Observe /\ UNCHANGED derVars
  \/ \E r \in Req : ExportStart(r) /\ Observe /\ UNCHANGED derVars
  \/ \E r \in Req : ExportDone(r) /\ Observe /\ UNCHANGED derVars
  \/ \E r \in Req : HealthStart(r) /\ Observe /\ UNCHANGED derVars
  \/ \E r \in Req : HealthDone(r) /\ Observe /\ UNCHANGED derVars

SpecHist == Init /\ [][NextHist]_vars

\* the same handlers with only wasReset kept
NextCycle ==
  \/ \E r \in Req : \E t \in RequestTokens :
       AssignStart(r, t) /\ ObserveReset /\ UNCHANGED derVars
  \/ \E r \in Req : AssignLookup(r) /\ ObserveReset /\ UNCHANGED derVars
  \/ \E r \in Req : AssignSave(r) /\ ObserveReset /\ UNCHANGED derVars
  \/ \E r \in Req : AssignRead(r) /\ ObserveReset /\ UNCHANGED derVars
  \/ \E r \in Req : ResetStart(r) /\ ObserveReset /\ UNCHANGED derVars
  \/ \E r \in Req : ResetDelete(r) /\ ObserveReset /\ UNCHANGED derVars
  \/ \E t \in RequestTokens \ {NoToken} : Whoami(t) /\ ObserveReset /\ UNCHANGED derVars
  \/ LinksCsv /\ ObserveReset /\ UNCHANGED derVars
  \/ \E r \in Req : ExportStart(r) /\ ObserveReset /\ UNCHANGED derVars
  \/ \E r \in Req : ExportDone(r) /\ ObserveReset /\ UNCHANGED derVars
  \/ \E r \in Req : HealthStart(r) /\ ObserveReset /\ UNCHANGED derVars
  \/ \E r \in Req : HealthDone(r) /\ ObserveReset /\ UNCHANGED derVars

SpecCycle == Init /\ [][NextCycle]_vars

\* one call derangement(n), for every n up to MaxN
InitDer ==
  /\ n \in 0 .. MaxN
  /\ DerInit
  /\ hasSupabase = FALSE
  /\ colleagues = <<>>
  /\ SrvFresh

NextDer ==
  \/ DerSwap /\ UNCHANGED srvVars
  \/ DerReturn /\ UNCHANGED srvVars
  \/ DerRetry /\ UNCHANGED srvVars
  \/ DerThrow /\ UNCHANGED srvVars

SpecDer == InitDer /\ [][NextDer]_vars

\* the loop of derangement runs on until it returns or throws
SpecDerFair == SpecDer /\ WF_vars(NextDer)

(***************************************************************************)
(* Properties of derangement                                               *)
(***************************************************************************)

\* a permutation of 0..len-1
IsPermutation(a, len) ==
  /\ DOMAIN a = 0 .. len - 1
  /\ \A v \in 0 .. len - 1 : Cardinality({k \in DOMAIN a : a[k] = v}) = 1

HasFixedPoint(a) == \E k \in DOMAIN a : a[k] = k

\* C1: whenever derangement(n) returns for n >= 2, the returned array has
\* length n, holds each integer of 0..n-1 exactly once, and moves every index.
C1_ReturnsDerangement ==
  (pcD = "returned" /\ n >= 2) => (IsPermutation(arr, n) /\ ~HasFixedPoint(arr))

\* derangement(3) returned after at least one discarded attempt
C1_Witness == pcD = "returned" /\ n = 3 /\ tries >= 1

\* C7: derangement(1) never returns and ends by throwing; derangement(0)
\* never throws and ends by returning the empty array.
C7_OneThrowsZeroReturnsEmpty ==
  /\ [](n = 1 => pcD # "returned")
  /\ (n = 1 => <>(pcD = "thrown"))
  /\ [](n = 0 => pcD # "thrown")
  /\ (n = 0 => <>(pcD = "returned" /\ arr = <<>>))

\* derangement(1) has thrown
C7_Witness == n = 1 /\ pcD = "thrown"

\* C8: for every n the call ends, within 2000 attempts, either by returning
\* an array without a fixed point or by throwing; nothing else is returned.
C8_BoundedAttempts ==
  /\ [](tries <= MaxTries)
  /\ [](pcD = "shuffle" => tries + 1 <= MaxTries)
  /\ [](pcD = "returned" => (tries + 1 <= MaxTries /\ ~HasFixedPoint(arr)))
  /\ <>(pcD \in {"returned", "thrown"})

\* derangement(3) used its whole budget and threw
C8_Witness == n = 3 /\ pcD = "thrown" /\ tries = MaxTries

(***************************************************************************)
(* Properties of the reveal and reset handlers                             *)
(***************************************************************************)

\* the token of the participant at list index k (NoToken before the first load)
TokenOf(k) == tokens[colleagues[k]]

\* the name that holds token t, Null when no participant does
OwnerOf(t) ==
  IF \E k \in DOMAIN colleagues : TokenOf(k) = t
    THEN colleagues[CHOOSE k \in DOMAIN colleagues : TokenOf(k) = t]
    ELSE Null

\* the number of rows the backend in use holds
StoredCount == IF hasSupabase THEN Cardinality(db) ELSE Length(LocalList)

RowOf(t) == {row \in Stored : row.token = t}

\* C2: the persisted assignment set is empty, or it has exactly one row per
\* participant, every participant token once as giver and once as receiver,
\* and no row whose giver is its receiver.
C2_StoredIsOneDerangement ==
  \/ StoredCount = 0
  \/ /\ StoredCount = Length(colleagues)
     /\ \A k \in DOMAIN colleagues :
          /\ TokenOf(k) # NoToken
          /\ Cardinality({row \in Stored : row.token = TokenOf(k)}) = 1
          /\ Cardinality({row \in Stored : row.receiver_token = TokenOf(k)}) = 1
     /\ \A row \in Stored : row.token # row.receiver_token

\* a second, different assignment set is about to be written over a stored one
C2_Witness ==
  /\ Length(colleagues) = 3
  /\ db # {}
  /\ \E r \in Req : req[r].pc = "save" /\ Range(req[r].rows) # db

\* C3: between two resets at most one assignment set is generated and saved.
C3_GeneratedOncePerCycle == generated <= 1

\* C4: with no reset in between, every successful reveal for a token names
\* the receiver the first successful reveal for that token named.
C4_SameReceiverEveryTime ==
  (res.op = "assign" /\ res.status = 200 /\ res.assignee # Null)
    => revealed[res.token] = res.assignee

\* C5: when the row of a request's token is persisted at the time of its
\* lookup, the lookup step calls derangement with nothing and goes on to the
\* final read, so the request never saves a recomputed set.
C5_NoRecomputeWhenPersisted ==
  [][\A r \in Req :
       (req[r].pc = "lookup" /\ RowOf(req[r].token) # {} /\ req'[r].pc # "lookup")
         => (called' = {} /\ req'[r].pc = "read")]_vars

\* C6: a 200 response of a reveal carries an assignee, who is the participant
\* holding the receiver_token of the stored row of the request's token and is
\* not the owner of that token.
C6_SuccessCarriesStoredReceiver ==
  (res.op = "assign" /\ res.status = 200)
    => /\ res.assignee # Null
       /\ res.assignee # OwnerOf(res.token)
       /\ \E row \in RowOf(res.token) : OwnerOf(row.receiver_token) = res.assignee

\* C9: the reveal flow never calls derangement with fewer than 2 participants.
C9_NoGenerationBelowTwo == \A len \in called : len >= 2

\* C10: with exactly one participant no row is ever written, no reveal gets as
\* far as saving or reading back, and a reveal with the participant's token
\* is answered with an error.
C10_SingleMemberFailsCleanly ==
  Length(colleagues) = 1 =>
    /\ db = {}
    /\ Range(localFile.rows) = {}
    /\ \A r \in Req : req[r].pc \notin {"save", "read"}
    /\ (res.op = "assign" /\ res.token # NoToken /\ res.token = TokenOf(0)) => res.status = 500

\* the single participant's reveal was answered with a server error
C10_Witness ==
  /\ Length(colleagues) = 1
  /\ res.op = "assign" /\ res.token = TokenOf(0) /\ res.status = 500
  /\ called = {1}

(***************************************************************************)
(* Properties of the error paths, the token registry and the store         *)
(***************************************************************************)

\* C11: a step of a reveal request in which the backend reports an error on
\* the lookup, the save or the final read sends the 500 response and leaves
\* the stored rows as they were.
C11_BackendErrorIsServerError ==
  [][failed' \in {"lookup", "save", "read"}
       => /\ res'.op = "assign" /\ res'.status = 500
          /\ db' = db /\ localFile' = localFile]_vars

\* C12: a step of any handler keeps every token a name already holds, leaves
\* no two names with the same token, hands every request in flight the tokens
\* of the token map, and whoami names the holder of the token it was asked for.
C12_TokensStableAndDistinct ==
  [][/\ \A name \in Names : tokens[name] # NoToken => tokens'[name] = tokens[name]
     /\ \A a \in Names : \A b \in Names \ {a} :
          tokens'[a] # NoToken => tokens'[a] # tokens'[b]
     /\ \A r \in Req : \A k \in DOMAIN req'[r].people :
          req'[r].people[k].token = tokens'[req'[r].people[k].name]
     /\ (res'.op = "whoami" /\ res'.status = 200) => tokens'[res'.assignee] = res'.token]_vars

\* whoami answered for a token whose reveal request, loaded earlier, is still
\* in flight, and an export loaded the participants in between
C12_Witness ==
  /\ Length(colleagues) = 3
  /\ res.op = "whoami" /\ res.status = 200
  /\ \E r \in Req : /\ req[r].pc = "read"
                     /\ req[r].token = res.token
                     /\ FindName(req[r].people, res.token) = res.assignee
  /\ \E r \in Req : req[r].pc = "export" /\ req[r].people = People(tokens)

\* the stored rows are one row per participant, every participant token once
\* as giver and once as receiver, and no row gives to its own giver
StoredIsFullSet ==
  /\ StoredCount = Length(colleagues)
  /\ \A k \in DOMAIN colleagues :
       /\ Cardinality({row \in Stored : row.token = TokenOf(k)}) = 1
       /\ Cardinality({row \in Stored : row.receiver_token = TokenOf(k)}) = 1
  /\ \A row \in Stored : row.token # row.receiver_token /\ row.giver # row.receiver

C14_UnknownTokenNotFound ==
  [][/\ (res'.op = "assign" /\ res'.token # NoToken /\ (OwnerOf(res.token) = Null)')
          => /\ res'.status = 404
             /\ called' = {}
             /\ db' = db /\ localFile' = localFile /\ req' = req
     /\ \A r \in Req :
          req'[r].pc \in {"lookup", "save", "read"} => (OwnerOf(req[r].token) # Null)']_vars

\* an unknown token was turned away while a full set for three is stored
C14_Witness ==
  /\ res.op = "assign" /\ res.status = 404 /\ res.token = Stranger
  /\ called = {}
  /\ Length(colleagues) = 3
  /\ StoredCount = 3

\* the number of stored rows, in the backend in use, whose giver token is t
GiverRows(t) ==
  IF hasSupabase THEN Cardinality({row \in db : row.token = t})
  ELSE Cardinality({k \in DOMAIN LocalList : LocalList[k].token = t})

\* C15: after every step the store holds at most one row for any giver token,
\* and a step that saves a batch leaves, for each giver token of the batch,
\* the batch's row as the only row of that token.
C15_OneRowPerGiver ==
  [][/\ \A t \in RequestTokens : GiverRows(t)' <= 1
     /\ \A r \in Req :
          (req[r].pc = "save" /\ req'[r].pc = "read")
            => \A k \in DOMAIN req[r].rows :
                 {row \in Stored' : row.token = req[r].rows[k].token} = {req[r].rows[k]}]_vars

\* a second set for three participants was saved over the first in the table
C15_Witness ==
  /\ hasSupabase
  /\ generated >= 2
  /\ Length(colleagues) = 3
  /\ \A k \in DOMAIN colleagues : GiverRows(TokenOf(k)) = 1

\* C16: the step of a reveal that generates calls derangement with the
\* length of the participant list and nothing else, and leaves one row per
\* list index, in list order: row k has participant k's token and name as
\* giver and, for one array perm that derangement can return, the token and
\* name of participant perm[k] as receiver.
C16_RowsFollowPermutation ==
  [][\A r \in Req :
       (req[r].pc = "lookup" /\ req'[r].pc = "save")
         => /\ called' = {Length(colleagues)}
            /\ DOMAIN req'[r].rows = 0 .. Length(colleagues) - 1
            /\ \E perm \in derangement[Length(colleagues)].returns :
                 \A k \in DOMAIN colleagues :
                   /\ req'[r].rows[k].token = TokenOf(k)
                   /\ req'[r].rows[k].giver = colleagues[k]
                   /\ req'[r].rows[k].receiver_token = TokenOf(perm[k])
                   /\ req'[r].rows[k].receiver = colleagues[perm[k]]]_vars

\* a reveal among three participants has built its rows and is about to save
C16_Witness ==
  /\ called = {3}
  /\ \E r \in Req : req[r].pc = "save" /\ Length(req[r].rows) = 3

\* C17: the steps of a health check (its start, and the answer of its probe
\* with either outcome) leave the Supabase table, the local assignments file
\* and the token map as they were.
C17_HealthChangesNothing ==
  [][(\/ res'.op = "health"
      \/ \E r \in Req : req[r].pc # "health" /\ req'[r].pc = "health"
      \/ \E r \in Req : req[r].pc = "health" /\ req'[r].pc # "health")
       => (db' = db /\ localFile' = localFile /\ tokens' = tokens)]_vars

\* a health check reported the table unreachable while a full set is stored
C17_Witness ==
  /\ hasSupabase
  /\ res.op = "health" /\ res.status = 500 /\ failed = "health"
  /\ Length(colleagues) = 3
  /\ StoredCount = 3

(***************************************************************************)
(* Coverage of derangement                                                 *)
(***************************************************************************)

\* the arrays over 0..len-1 that are permutations without a fixed point
AllDerangements(len) ==
  {a \in [0 .. len - 1 -> 0 .. len - 1] : IsPermutation(a, len) /\ ~HasFixedPoint(a)}

\* for every len of 2..MaxN: the arrays derangement(len) can return are all
\* the derangements, and so are the arrays one more attempt can return from
\* any array a discarded attempt has left in place
EveryDerangementReturnable ==
  \A len \in 2 .. MaxN :
    /\ derangement[len].returns = AllDerangements(len)
    /\ \A a \in Attempt([pending |-> {Identity(len)}, returns |-> {}], len).pending :
         Attempt([pending |-> {a}, returns |-> {}], len).returns = AllDerangements(len)

\* C18: for every n >= 2 each derangement of 0..n-1 is returned by
\* derangement(n) for some sequence of random choices, also on an attempt
\* that starts from the array a discarded attempt left; and what the loop
\* returns step by step is one of these arrays.
C18_EveryDerangementPossible ==
  /\ EveryDerangementReturnable
  /\ (pcD = "returned" /\ n >= 2) => arr \in derangement[n].returns

\* derangement(3) returned <<2, 0, 1>> on its third attempt, the array not
\* having been the identity since the first
C18_Witness ==
  /\ n = 3
  /\ pcD = "returned"
  /\ tries = 2
  /\ arr = [k \in 0 .. 2 |-> (k + 2) % 3]

====
